---- MODULE Spec2Model ----
(***************************************************************************)
(* Model of the Bitfinex lending bot: the decoders and rate selectors of   *)
(* data/data.go, the coercions of util.go/util.go and the decision cycle   *)
(* of strategy.StrategyManager.                                            *)
(*                                                                         *)
(* Numbers.  A JSON number decodes to a float64.  The model writes a       *)
(* number as an integer count of 1/Den, so the value 1.0 is Den; amounts,  *)
(* rates and the raw id and period fields all use this scale.  float64     *)
(* arithmetic is modelled as binary floating point with Precision          *)
(* significant bits, round to nearest, ties to even.                       *)
(***************************************************************************)
EXTENDS Integers, Sequences, FiniteSets, TLC

VARIABLES
    pc,                   \* position of the process: driver, StrategyManager step
    cycle,                \* number of StrategyManager invocations started
    currentPredictOrder,  \* StrategyManager local: tracked predictive orders
    currentOrderBool,     \* StrategyManager local: tracked-order flag
    usdBalance,           \* StrategyManager local: total funding balance
    availableUsdBalance,  \* StrategyManager local: running available balance
    startAvailable,       \* the available balance as read from the wallets
    alreadyLentAmount,    \* StrategyManager local
    remainFixUsdBalance,  \* StrategyManager local
    remainPredictUsdBalance, \* StrategyManager local
    bestOffer,            \* StrategyManager local: offer selected from the book
    stats,                \* StrategyManager local: decoded rate statistics
    requests,             \* transport write requests issued in this invocation
    placed,               \* predictive offers the venue accepted, whole process
    fault,                \* what ended or disturbed this invocation
    call,                 \* the library call made by the API harness
    listener,             \* position of the goroutine TradeSubscription.listen
    done,                 \* TradeSubscription.done is closed
    stream,               \* frames the connection holds for ReadMessage
    trades                \* the TradeMessages handed to onMessage

vars == <<pc, cycle, currentPredictOrder, currentOrderBool, usdBalance,
          availableUsdBalance, startAvailable, alreadyLentAmount,
          remainFixUsdBalance, remainPredictUsdBalance, bestOffer, stats,
          requests, placed, fault, call, listener, done, stream, trades>>

\* the state of a trade subscription
listenVars == <<listener, done, stream, trades>>

-----------------------------------------------------------------------------
(* Bounds of the model *)

\* longest order book, in rows
MaxRows == 3
\* StrategyManager invocations the driver makes
MaxCycles == 2
\* significant bits of the modelled floating-point format
Precision == 27

\* 1.0 in the model's number scale: numbers are counted in millionths
Den == 10 ^ 6

-----------------------------------------------------------------------------
(* JSON values, as json.Unmarshal leaves them in an interface{} *)

JNum(v) == [k |-> "num", v |-> v]
JStr(s) == [k |-> "str", s |-> s]
\* a string holding the decimal text of the number v
JNumStr(v) == [k |-> "str", s |-> "numeric", v |-> v]
JBool(b) == [k |-> "bool", b |-> b]
JNull == [k |-> "null"]
JArr(a) == [k |-> "arr", a |-> a]
\* bytes that are no JSON text at all
NotJson == [k |-> "invalid"]

\* a whole number n as a JSON number
JInt(n) == JNum(n * Den)

SeqToSet(s) == {s[i] : i \in 1..Len(s)}

\* all sequences over S of length 0..n
RECURSIVE SeqsUpTo(_, _)
SeqsUpTo(S, n) ==
    IF n = 0 THEN {<<>>}
    ELSE LET shorter == SeqsUpTo(S, n - 1)
         IN  shorter \cup {Append(s, x) : s \in {t \in shorter : Len(t) = n - 1}, x \in S}

Abs(x) == IF x < 0 THEN -x ELSE x

\* Go's int(float64): truncation towards zero
Trunc(v) == IF v >= 0 THEN v \div Den ELSE -((-v) \div Den)

-----------------------------------------------------------------------------
(* util.go *)

\* util.ToInt: after json.Unmarshal only the float64 case can occur
ToInt(v) ==
    IF v.k = "num" THEN [val |-> Trunc(v.v), ok |-> TRUE]
    ELSE [val |-> 0, ok |-> FALSE]

\* util.ToFloat64
ToFloat64(v) ==
    IF v.k = "num" THEN [val |-> v.v, ok |-> TRUE]
    ELSE [val |-> 0, ok |-> FALSE]

\* util.SafeFloat64: a float64, or a string strconv.ParseFloat accepts
SafeFloat64(value) ==
    IF value.k = "num" THEN [val |-> value.v, ok |-> TRUE]
    ELSE IF value.k = "str" /\ value.s = "numeric" THEN [val |-> value.v, ok |-> TRUE]
    ELSE [val |-> 0, ok |-> FALSE]

\* util.SafeInt and util.SafeInt64: a float64 is truncated, a string must be
\* a decimal integer
SafeInt(v) ==
    IF v.k = "num" THEN [val |-> Trunc(v.v), ok |-> TRUE]
    ELSE IF v.k = "str" /\ v.s = "numeric" /\ v.v % Den = 0
         THEN [val |-> v.v \div Den, ok |-> TRUE]
    ELSE [val |-> 0, ok |-> FALSE]

SafeInt64(v) == SafeInt(v)

-----------------------------------------------------------------------------
(* float64 arithmetic: round to nearest, ties to even, Precision bits *)

RECURSIVE BitLen(_)
BitLen(n) == IF n = 0 THEN 0 ELSE 1 + BitLen(n \div 2)

\* the float nearest to the rational p / q (q > 0)
RN(p, q) ==
    LET a == Abs(p)
        e == BitLen(a \div q) - Precision
        u == IF e > 0 THEN 2 ^ e ELSE 1
        m == a \div (q * u)
        rest2 == 2 * (a - m * q * u)
        up == rest2 > q * u \/ (rest2 = q * u /\ m % 2 = 1)
        r == (IF up THEN m + 1 ELSE m) * u
    IN  IF p < 0 THEN -r ELSE r

FSub(x, y) == RN(x - y, 1)
\* x * (num / den), the constant num / den being exact in the model
FMul(x, num, den) == RN(x * num, den)

-----------------------------------------------------------------------------
(* data.go: order-book decoding and the two rate selectors *)

\* json.Unmarshal into [][]interface{}: null decodes to a nil slice, a row
\* that is neither an array nor null fails the whole decode
Unmarshal2D(data) ==
    IF data.k = "null" THEN [ok |-> TRUE, rows |-> <<>>]
    ELSE IF data.k # "arr" THEN [ok |-> FALSE, rows |-> <<>>]
    ELSE IF \E i \in 1..Len(data.a) : data.a[i].k \notin {"arr", "null"}
         THEN [ok |-> FALSE, rows |-> <<>>]
    ELSE [ok |-> TRUE,
          rows |-> [i \in 1..Len(data.a) |->
                      IF data.a[i].k = "arr" THEN data.a[i].a ELSE <<>>]]

\* a nil pointer result
Nil == [nil |-> TRUE]
\* the zero value of BitfinexOffer
ZeroOffer == [OfferID |-> 0, Period |-> 0, Rate |-> 0, Amount |-> 0]

\* the decoding of a row with the coercions that also accept numeric strings
DecodeRowSafe(raw) ==
    IF Len(raw) < 4 THEN [ok |-> FALSE, offer |-> ZeroOffer]
    ELSE LET id == SafeInt(raw[1])
             period == SafeInt(raw[2])
             rate == SafeFloat64(raw[3])
             amount == SafeFloat64(raw[4])
         IN  [ok |-> id.ok /\ period.ok /\ rate.ok /\ amount.ok,
              offer |-> [OfferID |-> id.val, Period |-> period.val,
                         Rate |-> rate.val, Amount |-> amount.val]]

\* one raw row of the book: the fields by position, or not decodable
DecodeRow(raw) ==
    IF Len(raw) < 4 THEN [ok |-> FALSE, offer |-> ZeroOffer]
    ELSE LET id == ToInt(raw[1])
             period == ToInt(raw[2])
             rate == ToFloat64(raw[3])
             amount == ToFloat64(raw[4])
         IN  [ok |-> id.ok /\ period.ok /\ rate.ok /\ amount.ok,
              offer |-> [OfferID |-> id.val, Period |-> period.val,
                         Rate |-> rate.val, Amount |-> amount.val]]

\* the loop skipping only the rows with amount > 0
RECURSIVE ShortestOffersKeepZero(_)
ShortestOffersKeepZero(rows) ==
    IF rows = <<>> THEN <<>>
    ELSE LET d == DecodeRow(Head(rows))
             rest == ShortestOffersKeepZero(Tail(rows))
         IN  IF d.ok /\ ~(d.offer.Amount > 0) THEN <<d.offer>> \o rest ELSE rest

\* the loop of FindHighestRateForShortestPeriod that builds offers
RECURSIVE ShortestOffers(_)
ShortestOffers(rows) ==
    IF rows = <<>> THEN <<>>
    ELSE LET d == DecodeRow(Head(rows))
             rest == ShortestOffers(Tail(rows))
         IN  IF d.ok /\ ~(d.offer.Amount >= 0) THEN <<d.offer>> \o rest ELSE rest

\* the least period of a non-empty slice of offers
MinPeriod(offers) ==
    CHOOSE p \in {offers[i].Period : i \in 1..Len(offers)} :
        \A i \in 1..Len(offers) : p <= offers[i].Period

RemoveAt(s, i) == SubSeq(s, 1, i - 1) \o SubSeq(s, i + 1, Len(s))

\* insertion sort by period: offers of equal period keep their order
RECURSIVE InsertionSort(_)
InsertionSort(offers) ==
    IF offers = <<>> THEN <<>>
    ELSE LET i == CHOOSE k \in 1..Len(offers) :
                      /\ offers[k].Period = MinPeriod(offers)
                      /\ \A j \in 1..k - 1 : offers[j].Period # MinPeriod(offers)
         IN  <<offers[i]>> \o InsertionSort(RemoveAt(offers, i))

\* every order by period of the offers, whatever the order of equal periods
RECURSIVE SortedOrders(_)
SortedOrders(offers) ==
    IF offers = <<>> THEN {<<>>}
    ELSE LET firsts == {offers[k] : k \in {i \in 1..Len(offers) :
                                             offers[i].Period = MinPeriod(offers)}}
         IN  UNION {LET i == CHOOSE k \in 1..Len(offers) : offers[k] = x
                    IN  {<<x>> \o rest : rest \in SortedOrders(RemoveAt(offers, i))} :
                    x \in firsts}

\* sort.Slice(offers, by period).  The sort is not stable: the library sorts
\* up to 12 elements by insertion, which keeps equal periods in order, and
\* longer slices by a quicksort that may leave them in any order.
SortSlice(offers) ==
    IF Len(offers) <= 12 THEN {InsertionSort(offers)} ELSE SortedOrders(offers)

\* highestRate := -1.0
InitialHighestRate == -Den

\* the loop over the sorted offers
RECURSIVE ScanBest(_, _, _, _)
ScanBest(sorted, shortestPeriod, highestRate, best) ==
    IF sorted = <<>> THEN best
    ELSE LET offer == Head(sorted)
         IN  IF offer.Period = shortestPeriod /\ offer.Rate > highestRate
             THEN ScanBest(Tail(sorted), shortestPeriod, offer.Rate, offer)
             ELSE ScanBest(Tail(sorted), shortestPeriod, highestRate, best)

\* the possible results of FindHighestRateForShortestPeriod(data)
FindHighestRateForShortestPeriod(data) ==
    LET u == Unmarshal2D(data)
        offers == ShortestOffers(u.rows)
    IN  IF ~u.ok THEN {[err |-> "error parsing JSON", offer |-> Nil]}
        ELSE IF Len(offers) = 0
             THEN {[err |-> "no valid offers found", offer |-> Nil]}
        ELSE {[err |-> "nil",
               offer |-> ScanBest(sorted, sorted[1].Period, InitialHighestRate, ZeroOffer)] :
                  sorted \in SortSlice(offers)}

\* the loop without the check of the period against minPeriod
RECURSIVE LendingOffersAnyPeriod(_, _)
LendingOffersAnyPeriod(rows, minPeriod) ==
    IF rows = <<>> THEN <<>>
    ELSE LET d == DecodeRow(Head(rows))
             rest == LendingOffersAnyPeriod(Tail(rows), minPeriod)
         IN  IF d.ok /\ ~(d.offer.Amount >= 0)
             THEN <<[d.offer EXCEPT !.Amount = Abs(d.offer.Amount)]>> \o rest
             ELSE rest

\* the loop of FindHighestLendingRate that builds offers
RECURSIVE LendingOffers(_, _)
LendingOffers(rows, minPeriod) ==
    IF rows = <<>> THEN <<>>
    ELSE LET d == DecodeRow(Head(rows))
             rest == LendingOffers(Tail(rows), minPeriod)
         IN  IF d.ok /\ ~(d.offer.Amount >= 0) /\ ~(d.offer.Period < minPeriod)
             THEN <<[d.offer EXCEPT !.Amount = Abs(d.offer.Amount)]>> \o rest
             ELSE rest

\* the loop without the comparison of the periods at equal rates
RECURSIVE ScanHighestRateOnly(_, _)
ScanHighestRateOnly(rest, highestRateOffer) ==
    IF rest = <<>> THEN highestRateOffer
    ELSE LET offer == Head(rest)
         IN  IF offer.Rate > highestRateOffer.Rate
             THEN ScanHighestRateOnly(Tail(rest), offer)
             ELSE ScanHighestRateOnly(Tail(rest), highestRateOffer)

\* the loop over offers[1:]
RECURSIVE ScanHighest(_, _)
ScanHighest(rest, highestRateOffer) ==
    IF rest = <<>> THEN highestRateOffer
    ELSE LET offer == Head(rest)
         IN  IF offer.Rate > highestRateOffer.Rate
             THEN ScanHighest(Tail(rest), offer)
             ELSE IF offer.Rate = highestRateOffer.Rate
                     /\ offer.Period < highestRateOffer.Period
             THEN ScanHighest(Tail(rest), offer)
             ELSE ScanHighest(Tail(rest), highestRateOffer)

FindHighestLendingRate(data, minPeriod) ==
    LET u == Unmarshal2D(data)
        offers == LendingOffers(u.rows, minPeriod)
    IN  IF ~u.ok THEN [err |-> "error parsing JSON", offer |-> Nil]
        ELSE IF Len(offers) = 0
             THEN [err |-> "no valid lending offers found", offer |-> Nil]
        ELSE [err |-> "nil", offer |-> ScanHighest(Tail(offers), offers[1])]

-----------------------------------------------------------------------------
(* data.go: SubmitFundingOffer and CancelFundingOffer *)

\* the empty string and the strings fmt.Sprintf("%.<places>f") produces;
\* n counts units of 10^-places
EmptyStr == [txt |-> "empty"]
Text(t) == [txt |-> t]
Decimal(places, n) == [txt |-> "decimal", places |-> places, n |-> n]

\* json.Unmarshal into []interface{}
Unmarshal1D(body) ==
    IF body.k = "null" THEN [ok |-> TRUE, a |-> <<>>]
    ELSE IF body.k = "arr" THEN [ok |-> TRUE, a |-> body.a]
    ELSE [ok |-> FALSE, a |-> <<>>]

\* the checks with the lower bound of the period off by one
ValidateOfferFromOne(offer) ==
    IF offer.Symbol = EmptyStr THEN "symbol cannot be empty"
    ELSE IF offer.Amount = EmptyStr THEN "amount cannot be empty"
    ELSE IF offer.Rate = EmptyStr THEN "rate cannot be empty"
    ELSE IF offer.Period < 1 \/ offer.Period > 120
         THEN "period must be between 2 and 120 days"
    ELSE "nil"

\* the checks of SubmitFundingOffer before any request; "nil" when all pass
ValidateOffer(offer) ==
    IF offer.Symbol = EmptyStr THEN "symbol cannot be empty"
    ELSE IF offer.Amount = EmptyStr THEN "amount cannot be empty"
    ELSE IF offer.Rate = EmptyStr THEN "rate cannot be empty"
    ELSE IF offer.Period < 2 \/ offer.Period > 120
         THEN "period must be between 2 and 120 days"
    ELSE "nil"

\* if offer.Type == "" { offer.Type = "LIMIT" }
DefaultType(offer) ==
    IF offer.Type = EmptyStr THEN [offer EXCEPT !.Type = Text("LIMIT")] ELSE offer

\* the type assertions on the fields of the offer payload (0-based
\* 0,2,3,4,5,9,14,15,17 float64; 1,6,10 string; 16,19 bool)
OfferDataTyped(d) ==
    /\ \A i \in {1, 3, 4, 5, 6, 10, 15, 16, 18} : d[i].k = "num"
    /\ \A i \in {2, 7, 11} : d[i].k = "str"
    /\ \A i \in {17, 20} : d[i].k = "bool"

\* the FundingOffer built from the payload (the fields the bot reads)
FundingOfferOf(d) ==
    [ID |-> Trunc(d[1].v), CreatedAt |-> Trunc(d[3].v), Status |-> d[11].s,
     Rate |-> d[15].v, Period |-> Trunc(d[16].v)]

SubmitRequest(offer) == [path |-> "funding/offer/submit", body |-> offer]
CancelRequest(offerID) == [path |-> "funding/offer/cancel", body |-> [id |-> offerID]]

\* SubmitFundingOffer with the length of the response tested only as far as
\* index 4
SubmitFundingOfferShortResponse(offer, reply) ==
    LET v == ValidateOffer(offer)
        sent == <<SubmitRequest(DefaultType(offer))>>
        u == Unmarshal1D(reply.body)
        none == [err |-> "nil", sent |-> sent, result |-> Nil, panic |-> FALSE]
    IN  IF v # "nil" THEN [none EXCEPT !.err = v, !.sent = <<>>]
        ELSE IF reply.neterr THEN [none EXCEPT !.err = "failed to submit funding offer"]
        ELSE IF ~u.ok THEN [none EXCEPT !.err = "failed to parse response"]
        ELSE IF Len(u.a) < 5 THEN [none EXCEPT !.err = "invalid response format"]
        ELSE IF u.a[5].k # "arr" \/ Len(u.a[5].a) < 20
             THEN [none EXCEPT !.err = "invalid offer data format"]
        ELSE IF ~OfferDataTyped(u.a[5].a) THEN [none EXCEPT !.panic = TRUE]
        ELSE [none EXCEPT !.result = FundingOfferOf(u.a[5].a)]

\* SubmitFundingOffer(offer) when the transport answers reply: the error,
\* the requests handed to SendRequest, the result, and whether it panics
SubmitFundingOffer(offer, reply) ==
    LET v == ValidateOffer(offer)
        sent == <<SubmitRequest(DefaultType(offer))>>
        u == Unmarshal1D(reply.body)
        none == [err |-> "nil", sent |-> sent, result |-> Nil, panic |-> FALSE]
    IN  IF v # "nil" THEN [none EXCEPT !.err = v, !.sent = <<>>]
        ELSE IF reply.neterr THEN [none EXCEPT !.err = "failed to submit funding offer"]
        ELSE IF ~u.ok THEN [none EXCEPT !.err = "failed to parse response"]
        ELSE IF Len(u.a) < 8 THEN [none EXCEPT !.err = "invalid response format"]
        ELSE IF u.a[5].k # "arr" \/ Len(u.a[5].a) < 20
             THEN [none EXCEPT !.err = "invalid offer data format"]
        ELSE IF ~OfferDataTyped(u.a[5].a) THEN [none EXCEPT !.panic = TRUE]
        ELSE [none EXCEPT !.result = FundingOfferOf(u.a[5].a)]

\* CancelFundingOffer(offerID) when the transport answers reply
CancelFundingOffer(offerID, reply) ==
    LET sent == <<CancelRequest(offerID)>>
        u == Unmarshal1D(reply.body)
        none == [err |-> "nil", sent |-> sent, panic |-> FALSE]
    IN  IF reply.neterr THEN [none EXCEPT !.err = "failed to cancel funding offer"]
        ELSE IF ~u.ok THEN [none EXCEPT !.err = "failed to parse response"]
        ELSE IF Len(u.a) >= 7
             THEN IF u.a[7].k # "str" THEN [none EXCEPT !.panic = TRUE]
                  ELSE IF u.a[7].s # "SUCCESS"
                       THEN IF Len(u.a) < 8 \/ u.a[8].k # "str"
                            THEN [none EXCEPT !.panic = TRUE]
                            ELSE [none EXCEPT !.err = "failed to cancel funding offer"]
                  ELSE none
        ELSE none

-----------------------------------------------------------------------------
(* data.go: wallets and funding statistics *)

\* the loop of GetTotalWalletBalance over the wallets from row i on
RECURSIVE TotalLoop(_, _, _)
TotalLoop(wallets, i, acc) ==
    IF i > Len(wallets) THEN acc
    ELSE LET w == wallets[i]
         IN  IF Len(w) >= 3
             THEN IF w[1].k # "str" \/ w[2].k # "str" \/ w[3].k # "num"
                  THEN [acc EXCEPT !.panic = TRUE]
                  ELSE IF w[1].s = "funding" /\ w[2].s = "USD"
                       THEN TotalLoop(wallets, i + 1, [acc EXCEPT !.usd = w[3].v])
                  ELSE IF w[1].s = "funding" /\ w[2].s = "UST"
                       THEN TotalLoop(wallets, i + 1, [acc EXCEPT !.ust = w[3].v])
                  ELSE TotalLoop(wallets, i + 1, acc)
             ELSE TotalLoop(wallets, i + 1, acc)

GetTotalWalletBalance(reply) ==
    LET u == Unmarshal2D(reply.body)
        zero == [err |-> "nil", usd |-> 0, ust |-> 0, panic |-> FALSE]
    IN  IF reply.neterr THEN [zero EXCEPT !.err = "failed to get wallets"]
        ELSE IF ~u.ok THEN [zero EXCEPT !.err = "failed to parse wallets"]
        ELSE TotalLoop(u.rows, 1, zero)

\* the loop of GetWallets; balances maps a currency to its available balance
RECURSIVE WalletsLoop(_, _, _)
WalletsLoop(wallets, i, acc) ==
    IF i > Len(wallets) THEN acc
    ELSE LET w == wallets[i]
         IN  IF Len(w) >= 5
             THEN IF w[1].k # "str" \/ w[2].k # "str"
                  THEN [acc EXCEPT !.panic = TRUE]
                  ELSE IF w[1].s = "funding"
                       THEN IF w[5].k # "num" THEN [acc EXCEPT !.panic = TRUE]
                            ELSE WalletsLoop(wallets, i + 1,
                                   [acc EXCEPT !.balances =
                                       [c \in DOMAIN acc.balances \cup {w[2].s} |->
                                           IF c = w[2].s THEN w[5].v ELSE acc.balances[c]]])
                  ELSE WalletsLoop(wallets, i + 1, acc)
             ELSE WalletsLoop(wallets, i + 1, acc)

GetWallets(reply) ==
    LET u == Unmarshal2D(reply.body)
        zero == [err |-> "nil", balances |-> [c \in {} |-> 0], panic |-> FALSE]
    IN  IF reply.neterr THEN [zero EXCEPT !.err = "failed to get wallets"]
        ELSE IF ~u.ok THEN [zero EXCEPT !.err = "JSON parsing error"]
        ELSE WalletsLoop(u.rows, 1, zero)

\* the loop without the test of the last coercion
RECURSIVE StatsLoopFiveChecks(_)
StatsLoopFiveChecks(rawStats) ==
    IF rawStats = <<>> THEN <<>>
    ELSE LET raw == Head(rawStats)
             rest == StatsLoopFiveChecks(Tail(rawStats))
         IN  IF Len(raw) < 12 THEN rest
             ELSE LET ts == SafeFloat64(raw[1])
                      frr == SafeFloat64(raw[4])
                      avgPeriod == SafeFloat64(raw[5])
                      fundingAmt == SafeFloat64(raw[8])
                      fundingUsed == SafeFloat64(raw[9])
                      fundingBelow == SafeFloat64(raw[12])
                  IN  IF ~ts.ok \/ ~frr.ok \/ ~avgPeriod.ok \/ ~fundingAmt.ok
                         \/ ~fundingUsed.ok
                      THEN rest
                      ELSE <<[Timestamp |-> Trunc(ts.val), FRR |-> frr.val,
                              AveragePeriod |-> avgPeriod.val,
                              FundingAmount |-> fundingAmt.val,
                              FundingAmountUsed |-> fundingUsed.val,
                              FundingBelowThreshold |-> fundingBelow.val]>> \o rest

\* the loop of parseFundingStats
RECURSIVE StatsLoop(_)
StatsLoop(rawStats) ==
    IF rawStats = <<>> THEN <<>>
    ELSE LET raw == Head(rawStats)
             rest == StatsLoop(Tail(rawStats))
         IN  IF Len(raw) < 12 THEN rest
             ELSE LET ts == SafeFloat64(raw[1])
                      frr == SafeFloat64(raw[4])
                      avgPeriod == SafeFloat64(raw[5])
                      fundingAmt == SafeFloat64(raw[8])
                      fundingUsed == SafeFloat64(raw[9])
                      fundingBelow == SafeFloat64(raw[12])
                  IN  IF ~ts.ok \/ ~frr.ok \/ ~avgPeriod.ok \/ ~fundingAmt.ok
                         \/ ~fundingUsed.ok \/ ~fundingBelow.ok
                      THEN rest
                      ELSE <<[Timestamp |-> Trunc(ts.val), FRR |-> frr.val,
                              AveragePeriod |-> avgPeriod.val,
                              FundingAmount |-> fundingAmt.val,
                              FundingAmountUsed |-> fundingUsed.val,
                              FundingBelowThreshold |-> fundingBelow.val]>> \o rest

parseFundingStats(data) ==
    LET u == Unmarshal2D(data)
    IN  IF ~u.ok THEN [err |-> "error parsing JSON", stats |-> <<>>]
        ELSE [err |-> "nil", stats |-> StatsLoop(u.rows)]

GetFundingStat(reply) ==
    IF reply.neterr THEN [err |-> "failed to get funding statistics", stats |-> <<>>]
    ELSE LET r == parseFundingStats(reply.body)
         IN  IF r.err # "nil" THEN [err |-> "error parsing FundingStat", stats |-> <<>>]
             ELSE r

-----------------------------------------------------------------------------
(* Inputs of the library calls *)

RowA == <<JInt(101), JInt(2), JNum(150), JNum(-500 * Den)>>
RowB == <<JInt(102), JInt(2), JNum(150), JNum(-100 * Den)>>
RowC == <<JInt(103), JInt(2), JNum(950), JNum(-10 * Den)>>
RowD == <<JInt(104), JInt(30), JNum(900), JNum(-10 * Den)>>
RowE == <<JInt(105), JInt(1), JNum(990), JNum(10 * Den)>>
RowF == <<JInt(106), JInt(1), JNum(-Den), JNum(-10 * Den)>>
RowG == <<JInt(107), JInt(2), JNum(150)>>
RowH == <<JInt(108), JNumStr(2 * Den), JNum(990), JNum(-10 * Den)>>
RowI == <<JNum(109 * Den + Den \div 2), JNum(2 * Den + Den \div 2), JNum(150), JNum(-1)>>
RowJ == <<JInt(110), JInt(1), JNum(990), JNum(0)>>
RowK == <<JInt(111), JInt(60), JNum(900), JNum(-5 * Den)>>

BookRows == {RowA, RowB, RowC, RowD, RowE, RowF, RowG, RowH, RowI, RowJ, RowK}

BookOf(rows) == JArr([i \in 1..Len(rows) |-> JArr(rows[i])])

\* a book of thirteen eligible rows, two of them tied at the shortest period
LongBook ==
    BookOf(<<RowD, RowA, RowD, RowD, RowD, RowD, RowB, RowD, RowD, RowD, RowD, RowD, RowD>>)

BookPayloads ==
    {BookOf(rows) : rows \in SeqsUpTo(BookRows, MaxRows)}
        \cup {NotJson, JNull, JArr(<<JInt(1)>>), JArr(<<JNull, JArr(RowA)>>), LongBook}

MinPeriods == {2, 3, 31, 61}

\* rows of a funding statistics payload
StatA == <<JNum(1700 * Den + 7), JNull, JNull, JNum(200), JInt(3), JNull, JNull,
           JInt(900), JInt(500), JNull, JNull, JInt(10)>>
StatB == <<JInt(1699), JNull, JNull, JNum(300), JInt(3), JNull, JNull,
           JInt(900), JInt(500), JNull, JNull, JInt(10), JInt(0)>>
StatC == <<JInt(1698), JNull, JNull, JNumStr(123), JInt(3), JNull, JNull,
           JInt(900), JInt(500), JNull, JNull, JInt(10)>>
StatD == <<JInt(1697), JNull, JNull, JNull, JInt(3), JNull, JNull,
           JInt(900), JInt(500), JNull, JNull, JInt(10)>>
StatE == <<JInt(1696), JNull, JNull, JNum(400), JInt(3), JNull, JNull,
           JInt(900), JInt(500), JNull, JNull>>
StatF == <<JInt(1695), JNull, JNull, JNum(500), JInt(3), JNull, JNull,
           JInt(900), JInt(500), JNull, JNull, JStr("x")>>

StatRows == {StatA, StatB, StatC, StatD, StatE, StatF}

StatPayloads ==
    {BookOf(rows) : rows \in SeqsUpTo(StatRows, MaxRows)}
        \cup {NotJson, JNull, JArr(<<JNull, JArr(StatA)>>)}

\* the offer payload of a submit response
OfferData(id, rate, period, notify) ==
    <<JInt(id), JStr("fUSD"), JInt(1700), JInt(1700), JInt(200), JInt(200),
      JStr("LIMIT"), JNull, JNull, JInt(0), JStr("ACTIVE"), JNull, JNull, JNull,
      JNum(rate), JInt(period), notify, JInt(0), JNull, JBool(FALSE)>>

SubmitResponse(data) ==
    JArr(<<JInt(1700), JStr("fon-req"), JNull, JNull, data, JNull, JStr("SUCCESS"),
           JStr("Submitting funding offer")>>)

Answer(body) == [neterr |-> FALSE, body |-> body]
NetError == [neterr |-> TRUE, body |-> NotJson]

SubmitReplies ==
    {NetError, Answer(NotJson), Answer(JStr("x")), Answer(JNull),
     Answer(JArr(SubSeq(SubmitResponse(JNull).a, 1, 7))),
     Answer(JArr(SubSeq(SubmitResponse(JArr(OfferData(7, 260, 2, JBool(FALSE)))).a, 1, 7))),
     Answer(SubmitResponse(JStr("x"))),
     Answer(SubmitResponse(JNull)),
     Answer(SubmitResponse(JArr(SubSeq(OfferData(7, 260, 2, JBool(FALSE)), 1, 19)))),
     Answer(SubmitResponse(JArr(OfferData(7, 260, 2, JBool(FALSE))))),
     Answer(SubmitResponse(JArr(OfferData(7, 260, 2, JInt(0)))))}

ApiOffers ==
    [Type : {EmptyStr, Text("LIMIT")}, Symbol : {EmptyStr, Text("fUSD")},
     Amount : {EmptyStr, Decimal(2, 20000)}, Rate : {EmptyStr, Decimal(6, 260)},
     Period : {-1, 0, 1, 2, 3, 119, 120, 121, 122}, Flags : {0}]

CancelResponse(status, text) ==
    JArr(<<JInt(1700), JStr("foc-req"), JNull, JNull, JNull, JNull, status, text>>)

CancelReplies ==
    {NetError, Answer(NotJson), Answer(JNull),
     Answer(CancelResponse(JStr("SUCCESS"), JStr("ok"))),
     Answer(CancelResponse(JStr("ERROR"), JStr("not found"))),
     Answer(JArr(SubSeq(CancelResponse(JStr("ERROR"), JNull).a, 1, 7))),
     Answer(JArr(SubSeq(CancelResponse(JStr("SUCCESS"), JNull).a, 1, 6))),
     Answer(CancelResponse(JInt(0), JStr("ok")))}

-----------------------------------------------------------------------------
(* The library harness: one call of a data.go function at a time *)

NoCall == [fn |-> "none"]

cycleVars == <<pc, cycle, currentPredictOrder, currentOrderBool, usdBalance,
               availableUsdBalance, startAvailable, alreadyLentAmount,
               remainFixUsdBalance, remainPredictUsdBalance, bestOffer, stats,
               requests, placed, fault>>

ProcessStart ==
    /\ listener = "none" /\ done = FALSE /\ stream = <<>> /\ trades = <<>>
    /\ cycle = 0
    /\ currentPredictOrder = <<>>
    /\ currentOrderBool = FALSE
    /\ usdBalance = 0
    /\ availableUsdBalance = 0
    /\ startAvailable = 0
    /\ alreadyLentAmount = 0
    /\ remainFixUsdBalance = 0
    /\ remainPredictUsdBalance = 0
    /\ bestOffer = Nil
    /\ stats = <<>>
    /\ requests = <<>>
    /\ placed = <<>>
    /\ fault = "none"

ApiInit == pc = "api" /\ call = NoCall /\ ProcessStart

ApiFindShortest ==
    /\ pc = "api" /\ call = NoCall
    /\ \E data \in BookPayloads : \E r \in FindHighestRateForShortestPeriod(data) :
          call' = [fn |-> "FindHighestRateForShortestPeriod", data |-> data, res |-> r]
    /\ UNCHANGED cycleVars
    /\ UNCHANGED listenVars

ApiFindHighest ==
    /\ pc = "api" /\ call = NoCall
    /\ \E data \in BookPayloads, m \in MinPeriods :
          call' = [fn |-> "FindHighestLendingRate", data |-> data, minPeriod |-> m,
                   res |-> FindHighestLendingRate(data, m)]
    /\ UNCHANGED cycleVars
    /\ UNCHANGED listenVars

ApiSubmit ==
    /\ pc = "api" /\ call = NoCall
    /\ \E offer \in ApiOffers, reply \in SubmitReplies :
          call' = [fn |-> "SubmitFundingOffer", offer |-> offer, reply |-> reply,
                   res |-> SubmitFundingOffer(offer, reply)]
    /\ UNCHANGED cycleVars
    /\ UNCHANGED listenVars

ApiCancel ==
    /\ pc = "api" /\ call = NoCall
    /\ \E id \in {7, 8}, reply \in CancelReplies :
          call' = [fn |-> "CancelFundingOffer", offerID |-> id, reply |-> reply,
                   res |-> CancelFundingOffer(id, reply)]
    /\ UNCHANGED cycleVars
    /\ UNCHANGED listenVars

ApiParseStats ==
    /\ pc = "api" /\ call = NoCall
    /\ \E data \in StatPayloads :
          call' = [fn |-> "parseFundingStats", data |-> data,
                   res |-> parseFundingStats(data)]
    /\ UNCHANGED cycleVars
    /\ UNCHANGED listenVars

ApiReturn ==
    /\ pc = "api" /\ call # NoCall
    /\ call' = NoCall
    /\ UNCHANGED cycleVars
    /\ UNCHANGED listenVars

ApiNext ==
    \/ ApiFindShortest \/ ApiFindHighest \/ ApiSubmit \/ ApiCancel \/ ApiParseStats
    \/ ApiReturn

SpecApi == ApiInit /\ [][ApiNext]_vars

-----------------------------------------------------------------------------
(* strategy: the decision cycle of StrategyManager *)

\* distribution := Distribution{Fix: 0.5, Predict: 0.5}, as fractions
Distribution == [FixNum |-> 1, FixDen |-> 2, PredictNum |-> 1, PredictDen |-> 2]

\* the minimum order, 150
MinOrder == 150 * Den

\* the nearest integer to p / q (q > 0), ties to even
RoundHalfEven(p, q) ==
    LET a == Abs(p)
        m == a \div q
        rest2 == 2 * (a - m * q)
        r == IF rest2 > q \/ (rest2 = q /\ m % 2 = 1) THEN m + 1 ELSE m
    IN  IF p < 0 THEN -r ELSE r

\* fmt.Sprintf("%.<places>f", x)
Sprintf(places, x) == Decimal(places, RoundHalfEven(x, 10 ^ (6 - places)))

\* fmt.Sprintf("%.<places>f", x) for x counted in tenths of 1/Den
SprintfTenths(places, x) == Decimal(places, RoundHalfEven(x, 10 * 10 ^ (6 - places)))

\* the allocation with the whole lent amount taken off the predictive share
AllocationLentUnsplit(usd, available) ==
    LET d == Distribution
        fixUsdBalance == FMul(usd, d.FixNum, d.FixDen)
        predictUsdBalance == FMul(usd, d.PredictNum, d.PredictDen)
        lent == FSub(usd, available)
    IN  [alreadyLentAmount |-> lent,
         remainFix |-> FSub(fixUsdBalance, FMul(lent, d.FixNum, d.FixDen)),
         remainPredict |-> FSub(predictUsdBalance, lent)]

\* steps 3 and 4: the allocation of the balance to the two legs
Allocation(usd, available) ==
    LET d == Distribution
        fixUsdBalance == FMul(usd, d.FixNum, d.FixDen)
        predictUsdBalance == FMul(usd, d.PredictNum, d.PredictDen)
        lent == FSub(usd, available)
    IN  [alreadyLentAmount |-> lent,
         remainFix |-> FSub(fixUsdBalance, FMul(lent, d.FixNum, d.FixDen)),
         remainPredict |-> FSub(predictUsdBalance, FMul(lent, d.PredictNum, d.PredictDen))]

\* log.Fatal taken for a logged error followed by return
AfterLoggedReturn == "returned"

\* where log.Fatal leaves the process
AfterFatal == "exited"
\* the missing wallet taken for a fatal error
AfterMissingWalletFatal == "exited"

\* where the branch "USD funding wallet not found" leaves the process
AfterMissingWallet == "returned"

\* where a run-time panic leaves the process
AfterPanic == "crashed"

\* the wallet snapshots the venue may answer
WalletRow(type, currency, balance, available) ==
    <<JStr(type), JStr(currency), JNum(balance), JNum(0), JNum(available)>>

WalletPayloads ==
    {BookOf(<<WalletRow("exchange", "USD", 7 * Den, 7 * Den),
              WalletRow("funding", "USD", 400 * Den, 400 * Den)>>),
     BookOf(<<WalletRow("funding", "USD", 1000 * Den, 320 * Den + 4),
              WalletRow("funding", "UST", 5 * Den, 5 * Den)>>),
     BookOf(<<WalletRow("funding", "USD", 400 * Den, 100 * Den)>>),
     BookOf(<<WalletRow("funding", "USD", 400012000, 400012000)>>),
     BookOf(<<WalletRow("funding", "USD", 300008000, 300008000)>>),
     BookOf(<<WalletRow("exchange", "USD", 900 * Den, 900 * Den),
              WalletRow("funding", "UST", 5 * Den, 5 * Den)>>),
     BookOf(<<<<JStr("funding"), JStr("USD"), JNull, JNum(0), JNull>>>>)}

WalletReplies == {NetError} \cup {Answer(w) : w \in WalletPayloads}

\* the books the venue may answer in the fixed leg
BookReplies ==
    {NetError, Answer(NotJson), Answer(BookOf(<<RowA, RowC>>)), Answer(BookOf(<<RowE>>)),
     Answer(BookOf(<<RowF, RowA>>)), Answer(BookOf(<<RowD>>))}

StatRow(ts, frr) ==
    <<JInt(ts), JNull, JNull, frr, JInt(3), JNull, JNull, JInt(900), JInt(500),
      JNull, JNull, JInt(10)>>

StatReplies ==
    {NetError, Answer(NotJson),
     Answer(BookOf(<<StatRow(1700, JNum(200)), StatRow(1699, JNum(300))>>)),
     Answer(BookOf(<<StatRow(1700, JNull), StatRow(1699, JNum(123))>>)),
     Answer(BookOf(<<SubSeq(StatRow(1700, JNum(200)), 1, 11)>>))}

\* the answers of the venue to a submit request; an accepted offer gets id
SubmitRepliesFor(id, offer) ==
    {NetError, Answer(SubmitResponse(JNull)),
     Answer(SubmitResponse(JArr(OfferData(id, offer.Rate.n, offer.Period, JBool(FALSE))))),
     Answer(SubmitResponse(JArr(OfferData(id, offer.Rate.n, offer.Period, JInt(0)))))}

\* ids the venue gives the offers of an invocation
FixedId(c) == 100 + c
PredictId(c) == 200 + c

Init == pc = "start" /\ call = NoCall /\ ProcessStart

\* the process calls StrategyManager, again after each return
Driver ==
    /\ pc \in {"start", "returned"}
    /\ cycle < MaxCycles
    /\ pc' = "entry"
    /\ cycle' = cycle + 1
    /\ UNCHANGED <<currentPredictOrder, currentOrderBool, usdBalance,
                   availableUsdBalance, startAvailable, alreadyLentAmount,
                   remainFixUsdBalance, remainPredictUsdBalance, bestOffer, stats,
                   requests, placed, fault, call>>
    /\ UNCHANGED listenVars

\* the locals of a new invocation
Entry ==
    /\ pc = "entry"
    /\ currentPredictOrder' = <<>>
    /\ currentOrderBool' = FALSE
    /\ usdBalance' = 0
    /\ availableUsdBalance' = 0
    /\ startAvailable' = 0
    /\ alreadyLentAmount' = 0
    /\ remainFixUsdBalance' = 0
    /\ remainPredictUsdBalance' = 0
    /\ bestOffer' = Nil
    /\ stats' = <<>>
    /\ requests' = <<>>
    /\ fault' = "none"
    /\ pc' = "env"
    /\ UNCHANGED <<cycle, placed, call>>
    /\ UNCHANGED listenVars

locals == <<currentPredictOrder, currentOrderBool, usdBalance, availableUsdBalance,
            startAvailable, alreadyLentAmount, remainFixUsdBalance,
            remainPredictUsdBalance, bestOffer, stats>>

\* godotenv.Load and the two credentials
LoadEnv ==
    /\ pc = "env"
    /\ \E loaded \in BOOLEAN :
          IF loaded THEN pc' = "total" /\ fault' = fault
          ELSE pc' = AfterFatal /\ fault' = "env"
    /\ UNCHANGED <<locals, cycle, requests, placed, call>>
    /\ UNCHANGED listenVars

\* 1. Get total balance
GetTotal ==
    /\ pc = "total"
    /\ \E reply \in WalletReplies :
          LET r == GetTotalWalletBalance(reply)
          IN  IF r.panic THEN pc' = AfterPanic /\ fault' = "panic" /\ usdBalance' = usdBalance
              ELSE IF r.err # "nil"
                   THEN pc' = AfterFatal /\ fault' = "total" /\ usdBalance' = usdBalance
              ELSE pc' = "wallets" /\ fault' = fault /\ usdBalance' = r.usd
    /\ UNCHANGED <<currentPredictOrder, currentOrderBool, availableUsdBalance,
                   startAvailable, alreadyLentAmount, remainFixUsdBalance,
                   remainPredictUsdBalance, bestOffer, stats, cycle, requests, placed, call>>
    /\ UNCHANGED listenVars

\* 2. Get available balance
GetAvailable ==
    /\ pc = "wallets"
    /\ \E reply \in WalletReplies :
          LET r == GetWallets(reply)
          IN  IF r.panic
              THEN pc' = AfterPanic /\ fault' = "panic"
                   /\ UNCHANGED <<availableUsdBalance, startAvailable>>
              ELSE IF r.err # "nil"
                   THEN pc' = AfterFatal /\ fault' = "wallets"
                        /\ UNCHANGED <<availableUsdBalance, startAvailable>>
              ELSE IF "USD" \in DOMAIN r.balances
                   THEN /\ availableUsdBalance' = r.balances["USD"]
                        /\ startAvailable' = r.balances["USD"]
                        /\ pc' = "split" /\ fault' = fault
              ELSE pc' = AfterMissingWallet /\ fault' = "nowallet"
                   /\ UNCHANGED <<availableUsdBalance, startAvailable>>
    /\ UNCHANGED <<currentPredictOrder, currentOrderBool, usdBalance, alreadyLentAmount,
                   remainFixUsdBalance, remainPredictUsdBalance, bestOffer, stats,
                   cycle, requests, placed, call>>
    /\ UNCHANGED listenVars

\* 3. and 4. Calculate allocation amounts and the amounts still to lend
ComputeSplit ==
    /\ pc = "split"
    /\ LET a == Allocation(usdBalance, availableUsdBalance)
       IN  /\ alreadyLentAmount' = a.alreadyLentAmount
           /\ remainFixUsdBalance' = a.remainFix
           /\ remainPredictUsdBalance' = a.remainPredict
    /\ pc' = "fixed"
    /\ UNCHANGED <<currentPredictOrder, currentOrderBool, usdBalance, availableUsdBalance,
                   startAvailable, bestOffer, stats, cycle, requests, placed, fault, call>>
    /\ UNCHANGED listenVars

\* the amount of a leg after the check against the available balance
Clamp(remain, available) == IF available < remain THEN available ELSE remain

\* 5. fixed lending, up to the choice of the best offer
FixedSelect ==
    /\ pc = "fixed"
    /\ LET amount == Clamp(remainFixUsdBalance, availableUsdBalance)
       IN  IF remainFixUsdBalance > MinOrder
           THEN /\ remainFixUsdBalance' = amount
                /\ IF amount > MinOrder
                   THEN \E reply \in BookReplies :
                          IF reply.neterr
                          THEN pc' = "returned" /\ fault' = "book" /\ bestOffer' = bestOffer
                          ELSE \E r \in FindHighestRateForShortestPeriod(reply.body) :
                                 IF r.err # "nil"
                                 THEN pc' = "returned" /\ fault' = "select"
                                      /\ bestOffer' = bestOffer
                                 ELSE pc' = "fixedSubmit" /\ fault' = fault
                                      /\ bestOffer' = r.offer
                   ELSE pc' = "predict" /\ fault' = fault /\ bestOffer' = bestOffer
           ELSE pc' = "predict" /\ UNCHANGED <<remainFixUsdBalance, fault, bestOffer>>
    /\ UNCHANGED <<currentPredictOrder, currentOrderBool, usdBalance, availableUsdBalance,
                   startAvailable, alreadyLentAmount, remainPredictUsdBalance, stats,
                   cycle, requests, placed, call>>
    /\ UNCHANGED listenVars

FixedOffer ==
    [Type |-> Text("LIMIT"), Symbol |-> Text("fUSD"),
     Amount |-> Sprintf(2, remainFixUsdBalance), Rate |-> Sprintf(6, bestOffer.Rate),
     Period |-> bestOffer.Period, Flags |-> 0]

\* the submission of the fixed leg with the accepted offer put in the
\* tracked set
FixedSubmitTracked ==
    /\ pc = "fixedSubmit"
    /\ \E reply \in SubmitRepliesFor(FixedId(cycle), FixedOffer) :
          LET r == SubmitFundingOffer(FixedOffer, reply)
              current == [ID |-> r.result.ID, Rate |-> r.result.Rate,
                          Period |-> r.result.Period, Since |-> r.result.CreatedAt]
          IN  /\ requests' = requests \o r.sent
              /\ IF r.panic
                 THEN pc' = AfterPanic /\ fault' = "panic"
                      /\ availableUsdBalance' = availableUsdBalance
                      /\ UNCHANGED <<currentPredictOrder, currentOrderBool>>
                 ELSE /\ pc' = "predict"
                      /\ fault' = IF r.err # "nil" THEN "fixedSubmit" ELSE fault
                      /\ availableUsdBalance' = FSub(availableUsdBalance, remainFixUsdBalance)
                      /\ IF r.err = "nil"
                         THEN /\ currentPredictOrder' = Append(currentPredictOrder, current)
                              /\ currentOrderBool' = TRUE
                         ELSE UNCHANGED <<currentPredictOrder, currentOrderBool>>
    /\ UNCHANGED <<usdBalance, startAvailable, alreadyLentAmount, remainFixUsdBalance,
                   remainPredictUsdBalance, bestOffer, stats, cycle, placed, call>>
    /\ UNCHANGED listenVars

\* the submission of the fixed leg with the available balance reduced only
\* for an accepted offer
FixedSubmitReduceOnSuccess ==
    /\ pc = "fixedSubmit"
    /\ \E reply \in SubmitRepliesFor(FixedId(cycle), FixedOffer) :
          LET r == SubmitFundingOffer(FixedOffer, reply)
          IN  /\ requests' = requests \o r.sent
              /\ IF r.panic
                 THEN pc' = AfterPanic /\ fault' = "panic"
                      /\ availableUsdBalance' = availableUsdBalance
                 ELSE IF r.err # "nil"
                 THEN pc' = "predict" /\ fault' = "fixedSubmit"
                      /\ availableUsdBalance' = availableUsdBalance
                 ELSE /\ pc' = "predict" /\ fault' = fault
                      /\ availableUsdBalance' = FSub(availableUsdBalance, remainFixUsdBalance)
    /\ UNCHANGED <<currentPredictOrder, currentOrderBool, usdBalance, startAvailable,
                   alreadyLentAmount, remainFixUsdBalance, remainPredictUsdBalance,
                   bestOffer, stats, cycle, placed, call>>
    /\ UNCHANGED listenVars

\* the submission of the fixed leg with a return after a failed submit
FixedSubmitReturnOnError ==
    /\ pc = "fixedSubmit"
    /\ \E reply \in SubmitRepliesFor(FixedId(cycle), FixedOffer) :
          LET r == SubmitFundingOffer(FixedOffer, reply)
          IN  /\ requests' = requests \o r.sent
              /\ IF r.panic
                 THEN pc' = AfterPanic /\ fault' = "panic"
                      /\ availableUsdBalance' = availableUsdBalance
                 ELSE IF r.err # "nil"
                 THEN pc' = "returned" /\ fault' = "fixedSubmit"
                      /\ availableUsdBalance' = availableUsdBalance
                 ELSE /\ pc' = "predict" /\ fault' = fault
                      /\ availableUsdBalance' = FSub(availableUsdBalance, remainFixUsdBalance)
    /\ UNCHANGED <<currentPredictOrder, currentOrderBool, usdBalance, startAvailable,
                   alreadyLentAmount, remainFixUsdBalance, remainPredictUsdBalance,
                   bestOffer, stats, cycle, placed, call>>
    /\ UNCHANGED listenVars

\* 5. fixed lending: the submission
FixedSubmit ==
    /\ pc = "fixedSubmit"
    /\ \E reply \in SubmitRepliesFor(FixedId(cycle), FixedOffer) :
          LET r == SubmitFundingOffer(FixedOffer, reply)
          IN  /\ requests' = requests \o r.sent
              /\ IF r.panic
                 THEN pc' = AfterPanic /\ fault' = "panic"
                      /\ availableUsdBalance' = availableUsdBalance
                 ELSE /\ pc' = "predict"
                      /\ fault' = IF r.err # "nil" THEN "fixedSubmit" ELSE fault
                      /\ availableUsdBalance' = FSub(availableUsdBalance, remainFixUsdBalance)
    /\ UNCHANGED <<currentPredictOrder, currentOrderBool, usdBalance, startAvailable,
                   alreadyLentAmount, remainFixUsdBalance, remainPredictUsdBalance,
                   bestOffer, stats, cycle, placed, call>>
    /\ UNCHANGED listenVars

\* the test of the statistics left out
HasStatsUnchecked(list) == TRUE

\* if len(stats) > 0
HasStats(list) == Len(list) > 0

\* 6. predictive lending, up to the funding statistics
PredictStats ==
    /\ pc = "predict"
    /\ LET amount == Clamp(remainPredictUsdBalance, availableUsdBalance)
       IN  IF remainPredictUsdBalance > MinOrder
           THEN /\ remainPredictUsdBalance' = amount
                /\ IF amount > MinOrder
                   THEN \E reply \in StatReplies :
                          LET r == GetFundingStat(reply)
                          IN  IF r.err # "nil"
                              THEN pc' = "returned" /\ fault' = "stats" /\ stats' = stats
                              ELSE /\ stats' = r.stats
                                   /\ fault' = fault
                                   /\ pc' = IF HasStats(r.stats) THEN "cancel" ELSE "sleep"
                   ELSE pc' = "sleep" /\ fault' = fault /\ stats' = stats
           ELSE pc' = "sleep" /\ UNCHANGED <<remainPredictUsdBalance, fault, stats>>
    /\ UNCHANGED <<currentPredictOrder, currentOrderBool, usdBalance, availableUsdBalance,
                   startAvailable, alreadyLentAmount, remainFixUsdBalance, bestOffer,
                   cycle, requests, placed, call>>
    /\ UNCHANGED listenVars

\* the cancel loop over the tracked orders from order i on, the venue
\* answering replies[i] to the i-th cancel
RECURSIVE CancelLoop(_, _, _, _)
CancelLoop(orders, replies, i, acc) ==
    IF i > Len(orders) THEN acc
    ELSE LET r == CancelFundingOffer(orders[i].ID, replies[i])
             next == [acc EXCEPT !.sent = acc.sent \o r.sent]
         IN  IF r.panic THEN [next EXCEPT !.panic = TRUE]
             ELSE CancelLoop(orders, replies, i + 1, next)

\* the orders of the history with a cancel request in sent marked
MarkCancelled(history, sent) ==
    [i \in 1..Len(history) |->
        IF \E j \in 1..Len(sent) : sent[j] = CancelRequest(history[i].ID)
        THEN [history[i] EXCEPT !.cancelRequested = TRUE] ELSE history[i]]

\* 6. predictive lending: cancel existing prediction orders if any
CancelTracked ==
    /\ pc = "cancel"
    /\ IF currentOrderBool
       THEN \E replies \in [1..Len(currentPredictOrder) -> CancelReplies] :
              LET r == CancelLoop(currentPredictOrder, replies, 1,
                                  [sent |-> <<>>, panic |-> FALSE])
              IN  /\ requests' = requests \o r.sent
                  /\ placed' = MarkCancelled(placed, r.sent)
                  /\ IF r.panic
                     THEN pc' = AfterPanic /\ fault' = "panic"
                          /\ UNCHANGED <<currentPredictOrder, currentOrderBool>>
                     ELSE /\ currentPredictOrder' = <<>>
                          /\ currentOrderBool' = FALSE
                          /\ pc' = "predictSubmit" /\ fault' = fault
       ELSE pc' = "predictSubmit"
            /\ UNCHANGED <<currentPredictOrder, currentOrderBool, requests, placed, fault>>
    /\ UNCHANGED <<usdBalance, availableUsdBalance, startAvailable, alreadyLentAmount,
                   remainFixUsdBalance, remainPredictUsdBalance, bestOffer, stats,
                   cycle, call>>
    /\ UNCHANGED listenVars

\* predictRate := latestStat.FRR * 1.3, counted in tenths of 1/Den: the
\* float64 product keeps the digits below the sixth decimal
PredictRate(latestStat) == FMul(latestStat.FRR, 13, 1)

\* the predictive offer computed from the oldest record of the statistics
PredictOfferFromLast ==
    [Type |-> Text("LIMIT"), Symbol |-> Text("fUSD"),
     Amount |-> Sprintf(2, remainPredictUsdBalance),
     Rate |-> SprintfTenths(6, PredictRate(stats[Len(stats)])), Period |-> 2, Flags |-> 0]

PredictOffer ==
    [Type |-> Text("LIMIT"), Symbol |-> Text("fUSD"),
     Amount |-> Sprintf(2, remainPredictUsdBalance),
     Rate |-> SprintfTenths(6, PredictRate(stats[1])), Period |-> 2, Flags |-> 0]

\* the submission of the predictive leg with the order recorded and the flag
\* left as it was
PredictSubmitFlagUnset ==
    /\ pc = "predictSubmit"
    /\ \E reply \in SubmitRepliesFor(PredictId(cycle), PredictOffer) :
          LET r == SubmitFundingOffer(PredictOffer, reply)
              current == [ID |-> r.result.ID, Rate |-> r.result.Rate,
                          Period |-> r.result.Period, Since |-> r.result.CreatedAt]
          IN  /\ requests' = requests \o r.sent
              /\ IF r.panic
                 THEN pc' = AfterPanic /\ fault' = "panic"
                      /\ UNCHANGED <<currentPredictOrder, currentOrderBool, placed>>
                 ELSE IF r.err # "nil"
                 THEN pc' = "sleep" /\ fault' = "predictSubmit"
                      /\ UNCHANGED <<currentPredictOrder, currentOrderBool, placed>>
                 ELSE /\ currentPredictOrder' = Append(currentPredictOrder, current)
                      /\ currentOrderBool' = currentOrderBool
                      /\ placed' = Append(placed, [ID |-> current.ID, cycle |-> cycle,
                                                   cancelRequested |-> FALSE])
                      /\ pc' = "sleep" /\ fault' = fault
    /\ UNCHANGED <<usdBalance, availableUsdBalance, startAvailable, alreadyLentAmount,
                   remainFixUsdBalance, remainPredictUsdBalance, bestOffer, stats,
                   cycle, call>>
    /\ UNCHANGED listenVars

\* 6. predictive lending: the submission and the tracking of the order
PredictSubmit ==
    /\ pc = "predictSubmit"
    /\ \E reply \in SubmitRepliesFor(PredictId(cycle), PredictOffer) :
          LET r == SubmitFundingOffer(PredictOffer, reply)
              current == [ID |-> r.result.ID, Rate |-> r.result.Rate,
                          Period |-> r.result.Period, Since |-> r.result.CreatedAt]
          IN  /\ requests' = requests \o r.sent
              /\ IF r.panic
                 THEN pc' = AfterPanic /\ fault' = "panic"
                      /\ UNCHANGED <<currentPredictOrder, currentOrderBool, placed>>
                 ELSE IF r.err # "nil"
                 THEN pc' = "sleep" /\ fault' = "predictSubmit"
                      /\ UNCHANGED <<currentPredictOrder, currentOrderBool, placed>>
                 ELSE /\ currentPredictOrder' = Append(currentPredictOrder, current)
                      /\ currentOrderBool' = TRUE
                      /\ placed' = Append(placed, [ID |-> current.ID, cycle |-> cycle,
                                                   cancelRequested |-> FALSE])
                      /\ pc' = "sleep" /\ fault' = fault
    /\ UNCHANGED <<usdBalance, availableUsdBalance, startAvailable, alreadyLentAmount,
                   remainFixUsdBalance, remainPredictUsdBalance, bestOffer, stats,
                   cycle, call>>
    /\ UNCHANGED listenVars

\* time.Sleep(300 * time.Second), then the return
Sleep ==
    /\ pc = "sleep"
    /\ pc' = "returned"
    /\ UNCHANGED <<locals, cycle, requests, placed, fault, call>>
    /\ UNCHANGED listenVars

Next ==
    \/ Driver \/ Entry \/ LoadEnv \/ GetTotal \/ GetAvailable \/ ComputeSplit
    \/ FixedSelect \/ FixedSubmit \/ PredictStats \/ CancelTracked \/ PredictSubmit
    \/ Sleep

Spec == Init /\ [][Next]_vars

-----------------------------------------------------------------------------
(* data.go: the trade subscription and its listener goroutine *)

\* frames the connection can hold at once
MaxStream == 2
\* frames the venue sends on one subscription
MaxFrames == 3

\* a failure of the connection, which ReadMessage returns as an error
ReadError == [k |-> "readerr"]

TradeFrame(data) == JArr(<<JInt(17), JStr("te"), data>>)

\* what the venue may put on the stream
Frames ==
    {TradeFrame(JArr(<<JInt(401), JInt(1700), JNum(-250 * Den), JNum(150), JInt(2)>>)),
     TradeFrame(JArr(<<JNumStr(402 * Den), JNull, JNumStr(-1 * Den), JNum(200), JNum((5 * Den) \div 2)>>)),
     TradeFrame(JArr(<<JInt(403), JInt(1700)>>)),
     TradeFrame(JStr("x")),
     JArr(<<JInt(17), JStr("hb")>>),
     JArr(<<JInt(17), JStr("tu"), JArr(<<JInt(401), JInt(1700), JNum(-250 * Den), JNum(150), JInt(2)>>)>>),
     JNull, NotJson, ReadError}

\* the TradeMessage built from the data of a "te" frame; failed coercions
\* leave the zero value
TradeOf(data) ==
    [ID |-> SafeInt64(data[1]).val, Timestamp |-> SafeInt64(data[2]).val,
     Amount |-> SafeFloat64(data[3]).val, Rate |-> SafeFloat64(data[4]).val,
     Period |-> SafeInt(data[5]).val]

\* the calls of onMessage one frame causes
Handle(message) ==
    LET u == Unmarshal1D(message)
        msg == u.a
    IN  IF ~u.ok THEN <<>>
        ELSE IF Len(msg) >= 2 /\ msg[2] = JStr("te") /\ Len(msg) >= 3
             THEN IF msg[3].k # "arr" \/ Len(msg[3].a) < 5 THEN <<>>
                  ELSE <<TradeOf(msg[3].a)>>
        ELSE <<>>

\* the state SubscribeToTrades returns in: the goroutine started
ListenInit ==
    /\ pc = "start" /\ call = NoCall
    /\ cycle = 0 /\ currentPredictOrder = <<>> /\ currentOrderBool = FALSE
    /\ usdBalance = 0 /\ availableUsdBalance = 0 /\ startAvailable = 0
    /\ alreadyLentAmount = 0 /\ remainFixUsdBalance = 0 /\ remainPredictUsdBalance = 0
    /\ bestOffer = Nil /\ stats = <<>> /\ requests = <<>> /\ placed = <<>>
    /\ fault = "none"
    /\ listener = "select" /\ done = FALSE /\ stream = <<>> /\ trades = <<>>

\* the venue sends a frame, or the connection fails
Deliver ==
    /\ listener \in {"select", "read"}
    /\ Len(stream) < MaxStream
    /\ Len(stream) + Len(trades) < MaxFrames
    /\ \E f \in Frames : stream' = Append(stream, f)
    /\ UNCHANGED <<listener, done, trades, cycleVars, call>>

\* listen: the select at the head of the loop
ListenSelect ==
    /\ listener = "select"
    /\ listener' = IF done THEN "returned" ELSE "read"
    /\ UNCHANGED <<done, stream, trades, cycleVars, call>>

\* listen: ReadMessage returns, and the frame is handled
ListenRead ==
    /\ listener = "read"
    /\ stream # <<>>
    /\ IF Head(stream) = ReadError
       THEN listener' = "returned" /\ stream' = <<>> /\ trades' = trades
       ELSE /\ listener' = "select"
            /\ stream' = Tail(stream)
            /\ trades' = trades \o Handle(Head(stream))
    /\ UNCHANGED <<done, cycleVars, call>>

\* TradeSubscription.Close; closing a closed channel panics
Close ==
    /\ listener \in {"select", "read", "returned"}
    /\ IF done THEN listener' = AfterPanic /\ done' = done
       ELSE done' = TRUE /\ listener' = listener
    /\ UNCHANGED <<stream, trades, cycleVars, call>>

ListenNext == Deliver \/ ListenSelect \/ ListenRead \/ Close

\* the goroutine is scheduled whenever it can run
SpecListen ==
    ListenInit /\ [][ListenNext]_vars /\ WF_vars(ListenSelect) /\ WF_vars(ListenRead)

-----------------------------------------------------------------------------
(* Properties of the rate selectors *)

\* the rows of a book that decode and have amount < 0, by position
Eligible(data) ==
    LET rows == Unmarshal2D(data).rows
    IN  {i \in 1..Len(rows) : DecodeRow(rows[i]).ok /\ DecodeRow(rows[i]).offer.Amount < 0}

RowOffer(data, i) == DecodeRow(Unmarshal2D(data).rows[i]).offer

\* the eligible rows with the minimum period
AtShortest(data) ==
    {i \in Eligible(data) :
        \A j \in Eligible(data) : RowOffer(data, i).Period <= RowOffer(data, j).Period}

\* the rows of a set with the maximum rate of the set
TopRate(data, S) ==
    {i \in S : \A j \in S : RowOffer(data, j).Rate <= RowOffer(data, i).Rate}

First(S) == CHOOSE i \in S : \A j \in S : i <= j

CalledShortest == call.fn = "FindHighestRateForShortestPeriod" /\ Unmarshal2D(call.data).ok
CalledHighest == call.fn = "FindHighestLendingRate" /\ Unmarshal2D(call.data).ok

\* C1: on every book with a decodable row of amount < 0,
\* FindHighestRateForShortestPeriod returns one of those rows, of the minimum
\* period, with the maximum rate among the rows of that period.
C1_ShortestPeriodHighestRate ==
    (CalledShortest /\ Eligible(call.data) # {}) =>
        /\ call.res.err = "nil"
        /\ \E i \in TopRate(call.data, AtShortest(call.data)) :
              call.res.offer = RowOffer(call.data, i)

\* C2: when several eligible rows share the minimum period and the maximum
\* rate at that period, the first of them in input order is returned.
C2_FirstOfTiedRows ==
    (CalledShortest /\ Cardinality(TopRate(call.data, AtShortest(call.data))) >= 2) =>
        /\ call.res.err = "nil"
        /\ call.res.offer = RowOffer(call.data, First(TopRate(call.data, AtShortest(call.data))))

Meeting(data, m) == {i \in Eligible(data) : RowOffer(data, i).Period >= m}

\* C4: FindHighestLendingRate never returns a row with a period below the
\* minimum period, even when such a row has the highest rate of the book, and
\* returns the no-offers error when no eligible row meets the minimum period.
C4_NeverBelowMinimum ==
    CalledHighest =>
        /\ call.res.err = "nil" => call.res.offer.Period >= call.minPeriod
        /\ Meeting(call.data, call.minPeriod) = {} =>
              call.res = [err |-> "no valid lending offers found", offer |-> Nil]

\* an offer was returned although a shorter row had a strictly higher rate
C4_Witness ==
    /\ CalledHighest /\ call.res.err = "nil"
    /\ \E i \in Eligible(call.data) :
          /\ RowOffer(call.data, i).Period < call.minPeriod
          /\ RowOffer(call.data, i).Rate > call.res.offer.Rate

\* C5: the row FindHighestLendingRate returns has the maximum rate among the
\* eligible rows meeting the minimum period and, among the rows with that
\* rate, the smallest period.
C5_HighestRateThenShortest ==
    (CalledHighest /\ call.res.err = "nil") =>
        LET top == TopRate(call.data, Meeting(call.data, call.minPeriod))
        IN  \E i \in top :
              /\ call.res.offer =
                    [RowOffer(call.data, i) EXCEPT !.Amount = Abs(RowOffer(call.data, i).Amount)]
              /\ \A j \in top : RowOffer(call.data, i).Period <= RowOffer(call.data, j).Period

\* two rows had the top rate, the longer one first, and the shorter was returned
C5_Witness ==
    /\ CalledHighest /\ call.res.err = "nil"
    /\ LET top == TopRate(call.data, Meeting(call.data, call.minPeriod))
       IN  \E i, j \in top :
             /\ i < j
             /\ RowOffer(call.data, j).Period < RowOffer(call.data, i).Period
             /\ call.res.offer.Period = RowOffer(call.data, j).Period

\* C6: SubmitFundingOffer with an empty symbol, amount or rate, or a period
\* outside 2..120, returns an error and issues no request; every submit
\* request issued carries a period within 2..120.
C6_ValidationBeforeTransport ==
    call.fn = "SubmitFundingOffer" =>
        /\ (\/ call.offer.Symbol = EmptyStr \/ call.offer.Amount = EmptyStr
            \/ call.offer.Rate = EmptyStr
            \/ call.offer.Period \notin 2..120) =>
              /\ call.res.err # "nil" /\ call.res.result = Nil /\ call.res.sent = <<>>
        /\ \A i \in 1..Len(call.res.sent) : call.res.sent[i].body.Period \in 2..120

\* a request of period 121, otherwise valid, was refused without a request
C6_Witness ==
    /\ call.fn = "SubmitFundingOffer"
    /\ call.offer.Period = 121 /\ call.offer.Symbol = Text("fUSD")
    /\ call.offer.Amount # EmptyStr /\ call.offer.Rate # EmptyStr
    /\ call.res.err = "period must be between 2 and 120 days"
    /\ call.res.sent = <<>>

-----------------------------------------------------------------------------
(* Properties of the decision cycle *)

\* the predictive orders of earlier invocations the venue accepted
Earlier == {i \in 1..Len(placed) : placed[i].cycle < cycle}

\* C7: once the predictive leg is past its cancel step, a cancel request has
\* been issued for every order the leg had placed and tracked, whatever the
\* outcome of the other cancels, and the tracked set is empty.
C7_EveryTrackedOrderCancelled ==
    pc = "predictSubmit" =>
        /\ currentPredictOrder = <<>>
        /\ \A i \in 1..Len(placed) : placed[i].cancelRequested

\* C8: when a cycle is about to send its predictive submit request, the
\* requests of that cycle already hold a cancel request for the id of every
\* predictive offer an earlier cycle had accepted.
C8_ReplaceOnCycle ==
    pc = "predictSubmit" =>
        \A i \in Earlier :
            \E j \in 1..Len(requests) : requests[j] = CancelRequest(placed[i].ID)

\* the sum of the two amounts still to lend, as computed by step 4
RemainSum == remainFixUsdBalance + remainPredictUsdBalance

\* C9 as stated: the sum of the two remaining amounts equals total minus
\* already lent, that is the available balance read at the start of the
\* cycle, for every total and available balance.
C9_SumIsAvailable ==
    pc = "fixed" =>
        /\ RemainSum = usdBalance - alreadyLentAmount
        /\ RemainSum = startAvailable

\* C9 amended: the sum of the two remaining amounts equals total minus
\* already lent as floating point evaluates that difference, and equals the
\* available balance whenever total minus available is computed exactly.
C9_SumIsRoundedDifference ==
    pc = "fixed" =>
        /\ alreadyLentAmount = FSub(usdBalance, startAvailable)
        /\ RemainSum = FSub(usdBalance, alreadyLentAmount)
        /\ (alreadyLentAmount = usdBalance - startAvailable => RemainSum = startAvailable)

C9_Witness ==
    /\ pc = "fixed"
    /\ alreadyLentAmount # usdBalance - startAvailable
    /\ RemainSum # startAvailable
    /\ RemainSum = FSub(usdBalance, alreadyLentAmount)

\* a failure of the read of the total balance or of the wallets
ReadFailed == fault \in {"total", "wallets"}

C12_ReturnOnlyAfterSleep ==
    [][pc' = "returned" /\ pc # "returned" => pc = "sleep"]_vars

\* C13: when the rate selection of the fixed leg fails (no eligible offer in
\* the book), only the fixed leg is given up: the step that meets the error
\* goes on to the evaluation of the predictive leg of the same cycle.
C13_SelectionErrorAbortsLegOnly ==
    [][fault' = "select" /\ fault # "select" => pc' = "predict"]_vars

SuccessMarker(reply) ==
    /\ ~reply.neterr
    /\ reply.body.k = "arr"
    /\ Len(reply.body.a) >= 7
    /\ reply.body.a[7] = JStr("SUCCESS")

\* C15: CancelFundingOffer reports success exactly when the response carries
\* the literal "SUCCESS" at index 6; every other response, one too short to
\* have an index 6 included, is reported as a failure, returned as an error.
C15_SuccessOnlyOnMarker ==
    call.fn = "CancelFundingOffer" =>
        /\ ~call.res.panic
        /\ (call.res.err = "nil" <=> SuccessMarker(call.reply))

\* C16: once Close has been called on the subscription, the read loop of the
\* listener eventually terminates, also when the stream delivers no further
\* frame and raises no read error.
C16_CloseStopsListener == done ~> listener \in {"returned", AfterPanic}

\* a raw row with at least 4 fields whose first four are JSON numbers
Coercible(raw) == Len(raw) >= 4 /\ \A k \in 1..4 : raw[k].k = "num"

\* the book with the rows that are not coercible removed
WithoutBadRows(data) == BookOf(SelectSeq(Unmarshal2D(data).rows, Coercible))

\* C17: rows with fewer than 4 fields or with a field that is not a number
\* are dropped without failing the decode: each selector returns on a book
\* what it returns on the same book with those rows removed; and the row
\* [101, 2, 0.00015, -500.0] decodes to offerID 101, period 2, rate 0.00015,
\* amount -500.0.
C17_LenientRowDecoding ==
    /\ CalledShortest =>
          call.res \in FindHighestRateForShortestPeriod(WithoutBadRows(call.data))
    /\ CalledHighest =>
          call.res = FindHighestLendingRate(WithoutBadRows(call.data), call.minPeriod)
    /\ (CalledShortest \/ CalledHighest) =>
          \A i \in 1..Len(Unmarshal2D(call.data).rows) :
              Unmarshal2D(call.data).rows[i] = RowA =>
                  DecodeRow(Unmarshal2D(call.data).rows[i]) =
                      [ok |-> TRUE,
                       offer |-> [OfferID |-> 101, Period |-> 2, Rate |-> 150,
                                  Amount |-> -500 * Den]]

\* a book with a short row, a row with a string field and a good row
C17_Witness ==
    /\ CalledShortest
    /\ call.data = BookOf(<<RowG, RowH, RowA>>)
    /\ call.res = [err |-> "nil", offer |-> [OfferID |-> 101, Period |-> 2, Rate |-> 150,
                                            Amount |-> -500 * Den]]

\* the predictive leg of this invocation has sent its submit request: the
\* leg skips the submit only with an amount at or below the minimum order or
\* with no statistics
PredictSent ==
    /\ pc = "sleep"
    /\ remainPredictUsdBalance > MinOrder
    /\ Len(stats) > 0

\* the body of the last request of the invocation
LastBody == requests[Len(requests)].body

\* C18 as stated: every predictive offer sent has period 2 and a rate equal
\* to 1.3 times the flash return rate of the first decoded statistics record.
C18_RateIsExactMultiple ==
    PredictSent =>
        /\ LastBody.Period = 2
        /\ 10 * LastBody.Rate.n = 13 * stats[1].FRR

\* C18 amended: every predictive offer sent has period 2 and, as its rate,
\* 1.3 times the flash return rate of the first decoded statistics record
\* rounded to six decimal places, so frr 0.0002 gives 0.000260.
C18_RateIsRoundedMultiple ==
    PredictSent =>
        /\ LastBody.Period = 2
        /\ LastBody.Rate.places = 6
        /\ Abs(10 * LastBody.Rate.n - 13 * stats[1].FRR) <= 5
        /\ (stats[1].FRR = 200 => LastBody.Rate.n = 260)

\* a rate with more than six decimals was sent rounded
C18_Witness ==
    /\ PredictSent
    /\ stats[1].FRR = 123
    /\ LastBody.Rate = Decimal(6, 160)

\* the amount an offer carries, in the scale of the balances
AmountOf(offer) == offer.Amount.n * 10 ^ (6 - offer.Amount.places)

\* C19: a leg submits an offer only with a remaining amount that, clamped
\* to the available balance, is strictly above 150; the amount submitted is
\* above 150 and at most the available balance at the moment of the
\* submission; a leg with a remaining amount of 150 or less issues no
\* request and raises no error.
C19_SubmittedAmountWithinBounds ==
    /\ (pc = "fixedSubmit" /\ ValidateOffer(FixedOffer) = "nil") =>
          /\ remainFixUsdBalance > MinOrder
          /\ AmountOf(FixedOffer) > MinOrder
          /\ AmountOf(FixedOffer) <= availableUsdBalance
    /\ pc = "predictSubmit" =>
          /\ remainPredictUsdBalance > MinOrder
          /\ AmountOf(PredictOffer) > MinOrder
          /\ AmountOf(PredictOffer) <= availableUsdBalance
    /\ (pc = "predict" /\ remainFixUsdBalance <= MinOrder) =>
          requests = <<>> /\ fault = "none"
    /\ (pc = "sleep" /\ remainPredictUsdBalance <= MinOrder) =>
          Len(requests) <= 1 /\ fault \in {"none", "fixedSubmit"}

\* C20: once the predictive leg has sent its submit, the tracked set holds
\* exactly one record, with the id, rate, period and creation time of the
\* venue's answer, if the submit succeeded, and is empty if it failed; the
\* fixed leg adds no record, so the set is empty when the predictive leg
\* begins.
C20_OneRecordPerAcceptedPredictiveOffer ==
    /\ PredictSent =>
          currentPredictOrder =
              IF fault = "predictSubmit" THEN <<>>
              ELSE <<[ID |-> PredictId(cycle), Rate |-> LastBody.Rate.n,
                      Period |-> 2, Since |-> 1700]>>
    /\ pc \in {"predict", "cancel", "predictSubmit"} => currentPredictOrder = <<>>

\* both legs had their offers accepted and one record is tracked
C20_Witness ==
    /\ PredictSent
    /\ Len(requests) = 2 /\ fault = "none"
    /\ Len(currentPredictOrder) = 1
    /\ currentPredictOrder[1].ID = PredictId(cycle)

\* the predictive leg fetched the statistics and decoded an empty list
EmptyStatsLeg ==
    /\ pc = "sleep"
    /\ remainPredictUsdBalance > MinOrder
    /\ Len(stats) = 0

\* C21: when the predictive leg is reached and the decoded statistics list
\* is empty, the leg issues no cancel and no submit request (the requests of
\* the invocation are at most the submit of the fixed leg) and the tracked
\* set is as it was; the cancel and submit steps are entered only with a
\* non-empty list.
C21_EmptyStatsNoAction ==
    /\ pc \in {"cancel", "predictSubmit"} => Len(stats) > 0
    /\ EmptyStatsLeg =>
          /\ currentPredictOrder = <<>> /\ ~currentOrderBool
          /\ Len(requests) <= 1
          /\ \A j \in 1..Len(requests) : requests[j] = SubmitRequest(FixedOffer)

\* the fixed leg submitted and the predictive leg found no valid statistics
C21_Witness ==
    /\ EmptyStatsLeg
    /\ Len(requests) = 1
    /\ fault = "none"

\* a JSON value that coerces to a number: a number or a numeric string
Numeric(v) == v.k = "num" \/ (v.k = "str" /\ v.s = "numeric")

\* a statistics row with at least 12 fields whose fields 0, 3, 4, 7, 8 and
\* 11 coerce to numbers
ValidStat(raw) == Len(raw) >= 12 /\ \A k \in {1, 4, 5, 8, 9, 12} : Numeric(raw[k])

\* C22: parseFundingStats returns one record for each row with at least 12
\* fields whose fields 0, 3, 4, 7, 8 and 11 coerce to numbers, and for no
\* other row, in the order of the input: the record at position 0 comes from
\* the first valid row of the payload.
C22_StatsAreValidRowsInOrder ==
    (call.fn = "parseFundingStats" /\ Unmarshal2D(call.data).ok) =>
        LET valid == SelectSeq(Unmarshal2D(call.data).rows, ValidStat)
        IN  /\ call.res.err = "nil"
            /\ Len(call.res.stats) = Len(valid)
            /\ \A i \in 1..Len(valid) :
                  call.res.stats[i] =
                      [Timestamp |-> valid[i][1].v \div Den, FRR |-> valid[i][4].v,
                       AveragePeriod |-> valid[i][5].v,
                       FundingAmount |-> valid[i][8].v,
                       FundingAmountUsed |-> valid[i][9].v,
                       FundingBelowThreshold |-> valid[i][12].v]

\* a valid row between a short row and a row with a failing coercion
C22_Witness ==
    /\ call.fn = "parseFundingStats"
    /\ call.data = BookOf(<<StatE, StatB, StatD>>)
    /\ Len(call.res.stats) = 1
    /\ call.res.stats[1].FRR = 300 /\ call.res.stats[1].Timestamp = 1699

\* the venue's response to the submit is an array of length >= 8 whose
\* element at index 4 is an array of length >= 20
OfferShape(reply) ==
    /\ ~reply.neterr
    /\ reply.body.k = "arr"
    /\ Len(reply.body.a) >= 8
    /\ reply.body.a[5].k = "arr"
    /\ Len(reply.body.a[5].a) >= 20

\* C23: SubmitFundingOffer returns an offer result only on a response that
\* is an array of length >= 8 with an array of length >= 20 at index 4; on
\* every other response it returns an error value and no offer result.
C23_ResultOnlyFromOfferShape ==
    call.fn = "SubmitFundingOffer" =>
        /\ call.res.result # Nil => OfferShape(call.reply)
        /\ ~OfferShape(call.reply) =>
              call.res.err # "nil" /\ call.res.result = Nil /\ ~call.res.panic

\* a request that passes the validation met a response of seven elements
C23_Witness ==
    /\ call.fn = "SubmitFundingOffer"
    /\ call.res.sent # <<>>
    /\ ~call.reply.neterr /\ call.reply.body.k = "arr" /\ Len(call.reply.body.a) = 7
    /\ call.reply.body.a[5].k = "arr"
    /\ call.res.err = "invalid response format"

\* the sum of the amounts of the submit requests among reqs
RECURSIVE SubmittedSum(_)
SubmittedSum(reqs) ==
    IF reqs = <<>> THEN 0
    ELSE (IF Head(reqs).path = "funding/offer/submit" THEN AmountOf(Head(reqs).body) ELSE 0)
         + SubmittedSum(Tail(reqs))

\* C24: in every cycle the amounts of the offers for which a submit request
\* was issued, fixed plus predictive, sum to at most the available balance
\* read at the start of the cycle, and the running available balance is
\* never negative.
C24_SubmittedWithinAvailable ==
    /\ SubmittedSum(requests) <= startAvailable
    /\ availableUsdBalance >= 0

\* the fixed leg of this invocation has called SubmitFundingOffer: an offer
\* was selected and the submit step is behind
FixedAttempted == bestOffer # Nil /\ pc \notin {"fixed", "fixedSubmit", AfterPanic}

\* C25: once the fixed leg has attempted its submission, the available
\* balance the predictive leg works with is the balance read at the start
\* less the amount of the fixed leg, whether the venue accepted or rejected
\* the offer; when the fixed leg is skipped, or aborted before the submit,
\* the available balance is the one read at the start.
C25_AvailableReducedByAttempt ==
    /\ pc \in {"fixed", "fixedSubmit"} => availableUsdBalance = startAvailable
    /\ pc \in {"predict", "cancel", "predictSubmit", "sleep", "returned"} =>
          availableUsdBalance =
              IF FixedAttempted THEN FSub(startAvailable, remainFixUsdBalance)
              ELSE startAvailable

\* the venue rejected the fixed offer and the predictive leg begins with the
\* reduced balance
C25_Witness ==
    /\ pc = "predict" /\ fault = "fixedSubmit"
    /\ Len(requests) = 1
    /\ remainFixUsdBalance > MinOrder
    /\ availableUsdBalance = startAvailable - remainFixUsdBalance


\* C26: in every reachable state the tracked-order flag is true exactly when
\* the tracked set is not empty, and the tracked set never holds more than
\* one order.
C26_FlagIffTrackedAtMostOne ==
    /\ currentOrderBool <=> (currentPredictOrder # <<>>)
    /\ Len(currentPredictOrder) <= 1

\* the predictive offer of the invocation was accepted: one order tracked,
\* flag set
C26_Witness ==
    /\ pc = "sleep"
    /\ currentOrderBool
    /\ Len(currentPredictOrder) = 1
    /\ currentPredictOrder[1].ID = PredictId(cycle)

====
